---- MODULE Spec2Model ----
(***************************************************************************)
(* Model of MyDateTime (convert_date.py): the heuristic date normaliser,   *)
(* its strict-template parser and its formatter.                           *)
(*                                                                         *)
(* Python strings are sequences of one-character strings, so that          *)
(* tokenising, title-casing, substring replacement, fuzzy matching and     *)
(* formatting are computed character by character as the code does.        *)
(* None is the empty tuple and a present optional value v is <<v>>.        *)
(***************************************************************************)
EXTENDS Integers, Sequences, FiniteSets, TLC

\* ------------------------------------------------------------------ bounds
\* Largest number of tokens in a generated input text.
MaxParts == 3

\* ------------------------------------------------------------ characters
LowerLetters ==
  <<"a","b","c","d","e","f","g","h","i","j","k","l","m",
    "n","o","p","q","r","s","t","u","v","w","x","y","z">>

UpperLetters ==
  <<"A","B","C","D","E","F","G","H","I","J","K","L","M",
    "N","O","P","Q","R","S","T","U","V","W","X","Y","Z">>

DigitChars == <<"0","1","2","3","4","5","6","7","8","9">>

Range(f) == {f[i] : i \in DOMAIN f}

LowerSet == Range(LowerLetters)

UpperSet == Range(UpperLetters)

DigitSet == Range(DigitChars)

IsLower(c) == c \in LowerSet

IsUpper(c) == c \in UpperSet

\* "cased" for the ASCII letters of the model.
IsCased(c) == c \in LowerSet \/ c \in UpperSet

IsDigitChar(c) == c \in DigitSet

\* Python whitespace (the model's texts only contain the blank).
IsSpace(c) == c = " "

LetterIndex ==
  [c \in LowerSet \cup UpperSet |->
     CHOOSE i \in 1..26 : LowerLetters[i] = c \/ UpperLetters[i] = c]

UpperOf == [c \in LowerSet \cup UpperSet |-> UpperLetters[LetterIndex[c]]]

LowerOf == [c \in LowerSet \cup UpperSet |-> LowerLetters[LetterIndex[c]]]

ToUpper(c) == IF IsCased(c) THEN UpperOf[c] ELSE c

ToLower(c) == IF IsCased(c) THEN LowerOf[c] ELSE c

DigitValOf == [c \in DigitSet |-> (CHOOSE i \in 1..10 : DigitChars[i] = c) - 1]

DigitVal(c) == DigitValOf[c]

\* Code-point order of the characters that occur in month names, used where
\* Python compares strings (upper case sorts before lower case).
CharOrd(c) ==
  IF IsUpper(c) THEN LetterIndex[c]
  ELSE IF IsLower(c) THEN 100 + LetterIndex[c]
  ELSE 0

\* ------------------------------------------------------- optional values
None == <<>>

Some(v) == <<v>>

IsNone(o) == o = <<>>

Val(o) == o[1]

\* ------------------------------------------------------ str primitives
\* str.isdigit(): non-empty and every character a digit.
isdigit(s) == Len(s) > 0 /\ \A i \in 1..Len(s) : IsDigitChar(s[i])

\* int(s) for an all-digit token.
RECURSIVE StrToInt(_)
StrToInt(s) ==
  IF Len(s) = 0 THEN 0
  ELSE 10 * StrToInt(SubSeq(s, 1, Len(s) - 1)) + DigitVal(s[Len(s)])

\* str(n) for n >= 0.
RECURSIVE NatToStr(_)
NatToStr(n) ==
  IF n < 10 THEN <<DigitChars[n + 1]>>
  ELSE NatToStr(n \div 10) \o <<DigitChars[(n % 10) + 1]>>

\* str(n) / f"{n}" for an integer.
IntToStr(n) == IF n < 0 THEN <<"-">> \o NatToStr(0 - n) ELSE NatToStr(n)

\* f"{n:02d}": zero-padded to width two, the sign counting in the width.
Format02d(n) ==
  IF n >= 0 /\ n < 10 THEN <<"0">> \o NatToStr(n) ELSE IntToStr(n)

\* str.strip()
RECURSIVE lstrip(_)
lstrip(s) ==
  IF Len(s) > 0 /\ IsSpace(s[1]) THEN lstrip(Tail(s)) ELSE s

RECURSIVE rstrip(_)
rstrip(s) ==
  IF Len(s) > 0 /\ IsSpace(s[Len(s)])
  THEN rstrip(SubSeq(s, 1, Len(s) - 1)) ELSE s

strip(s) == rstrip(lstrip(s))

\* str.title(): a cased character is upper-cased when the character before
\* it is not cased, and lower-cased otherwise.
title(s) ==
  [i \in 1..Len(s) |->
     IF i > 1 /\ IsCased(s[i - 1]) THEN ToLower(s[i]) ELSE ToUpper(s[i])] \o <<>>

\* str.capitalize(): first character upper-cased, the rest lower-cased.
capitalize(s) ==
  [i \in 1..Len(s) |-> IF i = 1 THEN ToUpper(s[i]) ELSE ToLower(s[i])] \o <<>>

\* s.startswith(p) at position i (1-based).
HasAt(s, p, i) ==
  /\ i + Len(p) - 1 <= Len(s)
  /\ \A k \in 1..Len(p) : s[i + k - 1] = p[k]

\* p in s
Contains(s, p) == \E i \in 1..Len(s) : HasAt(s, p, i)

\* s.replace(old, new): non-overlapping occurrences, left to right.
RECURSIVE replace(_, _, _)
replace(s, old, new) ==
  IF Len(s) = 0 THEN s
  ELSE IF HasAt(s, old, 1)
       THEN new \o replace(SubSeq(s, Len(old) + 1, Len(s)), old, new)
       ELSE <<s[1]>> \o replace(Tail(s), old, new)

\* re.sub("[class]", " ", s)
ReSubSpace(class, s) ==
  [i \in 1..Len(s) |-> IF s[i] \in class THEN " " ELSE s[i]] \o <<>>

\* str.split(): the maximal runs of non-whitespace, in order.
RECURSIVE SplitFrom(_, _, _)
SplitFrom(s, i, cur) ==
  IF i > Len(s) THEN (IF Len(cur) > 0 THEN <<cur>> ELSE <<>>)
  ELSE IF IsSpace(s[i])
       THEN (IF Len(cur) > 0 THEN <<cur>> ELSE <<>>) \o SplitFrom(s, i + 1, <<>>)
       ELSE SplitFrom(s, i + 1, Append(cur, s[i]))

split(s) == SplitFrom(s, 1, <<>>)

\* ------------------------------------------------- the instance's tables
VARIABLES
  months,       \* self.months: full month name -> number
  months_abbr,  \* self.months_abbr: abbreviation -> number
  months_num    \* self.months_num: "1".."12" -> number

\* ------------------------------------------------------------- calendar
\* calendar.month_name[1..12]
MonthNames ==
  << <<"J","a","n","u","a","r","y">>,
     <<"F","e","b","r","u","a","r","y">>,
     <<"M","a","r","c","h">>,
     <<"A","p","r","i","l">>,
     <<"M","a","y">>,
     <<"J","u","n","e">>,
     <<"J","u","l","y">>,
     <<"A","u","g","u","s","t">>,
     <<"S","e","p","t","e","m","b","e","r">>,
     <<"O","c","t","o","b","e","r">>,
     <<"N","o","v","e","m","b","e","r">>,
     <<"D","e","c","e","m","b","e","r">> >>

\* calendar.month_abbr[1..12]
MonthAbbr ==
  << <<"J","a","n">>, <<"F","e","b">>, <<"M","a","r">>, <<"A","p","r">>,
     <<"M","a","y">>, <<"J","u","n">>, <<"J","u","l">>, <<"A","u","g">>,
     <<"S","e","p">>, <<"O","c","t">>, <<"N","o","v">>, <<"D","e","c">> >>

\* calendar.day_name, Monday first (datetime.weekday() order).
DayNames ==
  <<"Monday", "Tuesday", "Wednesday", "Thursday", "Friday", "Saturday", "Sunday">>

\* The tables __init__ builds: the non-empty entries of calendar.month_name
\* and calendar.month_abbr with their index, and str(i) -> i for i in 1..12.
MonthsBuilt ==
  [name \in Range(MonthNames) |-> CHOOSE i \in 1..12 : MonthNames[i] = name]

MonthsAbbrBuilt ==
  [name \in Range(MonthAbbr) |-> CHOOSE i \in 1..12 : MonthAbbr[i] = name]

MonthsNumBuilt == [key \in {NatToStr(i) : i \in 1..12} |-> StrToInt(key)]

\* dict.get(key): None when the key is absent.
dict_get(d, key) == IF key \in DOMAIN d THEN Some(d[key]) ELSE None

\* self.months.get(name)
months_get(name) == dict_get(months, name)

\* self.months_abbr.get(name)
months_abbr_get(name) == dict_get(months_abbr, name)

\* part in self.months_num: the keys are str(i) for i in 1..12, so "02" is
\* no key.
months_num_has(part) == part \in DOMAIN months_num

\* check_leap_year without the 400-year exception to the century rule.
check_leap_year_NoFourHundred(year) == year % 4 = 0 /\ year % 100 # 0

\* check_leap_year
check_leap_year(year) ==
  (year % 4 = 0 /\ year % 100 # 0) \/ (year % 400 = 0)

\* calendar.mdays
mdays == <<31, 28, 31, 30, 31, 30, 31, 31, 30, 31, 30, 31>>

\* calendar.monthrange(year, month)[1]; raises for a month outside 1..12.
monthrange_ok(year, month) == month \in 1..12

\* monthrange as calendar.mdays alone, February not lengthened in leap years.
monthrange_last_NoLeap(year, month) == mdays[month]

monthrange_last(year, month) ==
  mdays[month] + (IF month = 2 /\ check_leap_year(year) THEN 1 ELSE 0)

\* datetime.MAXYEAR
MAXYEAR == 9999

\* datetime(year, month, day) raises ValueError unless this holds.
datetime_ok(year, month, day) ==
  /\ year >= 1 /\ year <= MAXYEAR
  /\ month \in 1..12
  /\ day >= 1 /\ day <= monthrange_last(year, month)

RECURSIVE DaysBeforeMonth(_, _)
DaysBeforeMonth(year, month) ==
  IF month = 1 THEN 0
  ELSE DaysBeforeMonth(year, month - 1) + monthrange_last(year, month - 1)

\* date.toordinal(): 1 for 0001-01-01, proleptic Gregorian.
toordinal(year, month, day) ==
  LET y == year - 1
  IN  y * 365 + (y \div 4) - (y \div 100) + (y \div 400)
      + DaysBeforeMonth(year, month) + day

\* strftime("%A") reading the ordinal's remainder with the week starting a day
\* late.
strftime_A_DayLate(year, month, day) ==
  DayNames[(toordinal(year, month, day) % 7) + 1]

\* datetime(year, month, day).strftime("%A")
strftime_A(year, month, day) ==
  DayNames[((toordinal(year, month, day) + 6) % 7) + 1]

\* The character class of re.sub(r"[-/,|;:.'\']", " ", ...) in check_date.
CheckDateSeparators == {"-", "/", ",", "|", ";", ":", ".", "'"}

\* ------------------------------------------------------------- inputs
\* Tokens the generated input texts are built from.
Vocabulary ==
  { <<"0">>,
    <<"0","2">>,
    <<"1","2">>,
    <<"3","1">>,
    <<"3","2">>,
    <<"2","0","2","4">>,
    <<"f","e","b">>,
    <<"N","o","v","e","m","b","r">> }

\* Separators the generated input texts are joined with.
Separators == {" ", "-", "/"}

\* Texts named by the documentation and by the sample run of the module.
Examples ==
  { <<"2","0","2","4","-","0","2","-","3","0">>,
    <<"3","1","-","N","o","v","e","m","b","r","-","2","0","2","3">>,
    <<"1","5"," ","M","a","r","c","h"," ","2","0","2","3">>,
    <<"1","5"," ","M","a","r","c","h"," ","0","0","0","0">>,
    <<"9"," ","8"," ","7"," ">>,
    <<"1","'","'","1","2","/","1","9","9","9">>,
    <<"j"," ","j"," ","8">>,
    <<"3","2"," ","|"," ","1","2"," ","-"," ","2","0","2","9">>,
    <<"2","0","2","9","1","2","2","4">>,
    <<"2","0","2","9"," ","1","3",","," ","1","2">>,
    <<"2","0","2","9"," ","1","2"," ","3","2">>,
    <<"x","y","z"," ","3","1"," ","2","0","2","4">>,
    <<"1","2"," ","x","y","z"," ","2","0","2","4">>,
    <<"1","2","3","4","5"," ","N","o","v","e","m","b","r"," ","3","1">>,
    <<"1","2"," ","f","e","b"," ","1","2","3","4","5">>,
    <<"0","2",".","1","2",".","2","0","2","4">>,
    <<"3","1",".","N","o","v","e","m","b","r",".","2","0","2","4">>,
    <<"2","0","2","3"," ","M","a","r","c","h"," ","1","0">>,
    <<"1","0","0"," ","1","2"," ","3","1">>,
    <<"2","9"," ","M","a","r","c","h"," ","1","5">>,
    <<"2","0","2","4"," ","1","2"," ","3","1"," ","7">>,
    <<"5","/","3","/","2","0","2","3">> }

RECURSIVE Join(_, _)
Join(parts, sep) ==
  IF Len(parts) = 0 THEN <<>>
  ELSE IF Len(parts) = 1 THEN parts[1]
  ELSE parts[1] \o <<sep>> \o Join(Tail(parts), sep)

RECURSIVE TokenSeqs(_)
TokenSeqs(n) ==
  IF n = 0 THEN {<<>>}
  ELSE LET shorter == TokenSeqs(n - 1)
       IN  shorter \cup {Append(ts, t) : ts \in {x \in shorter : Len(x) = n - 1},
                                         t \in Vocabulary}

\* The input texts: up to MaxParts tokens joined by one separator, and the
\* examples.
Inputs ==
  {Join(ts, sep) : ts \in TokenSeqs(MaxParts), sep \in Separators} \cup Examples

\* ------------------------------------------------ difflib fuzzy matching
\* Length of the common run of a and b starting at a[i], b[j] and staying
\* inside a[..ahi], b[..bhi].
RECURSIVE RunLen(_, _, _, _, _, _)
RunLen(a, b, i, j, ahi, bhi) ==
  IF i <= ahi /\ j <= bhi /\ a[i] = b[j]
  THEN 1 + RunLen(a, b, i + 1, j + 1, ahi, bhi) ELSE 0

\* Length of the longest common block of a[alo..ahi] and b[blo..bhi].
LongestLen(a, b, alo, ahi, blo, bhi) ==
  LET lens == {RunLen(a, b, p[1], p[2], ahi, bhi) : p \in (alo..ahi) \X (blo..bhi)}
  IN  CHOOSE k \in lens : \A k2 \in lens : k2 <= k

\* The block of length best that starts earliest in a and, of those, earliest
\* in b, as <<i, j, best>>.
FirstOfLen(a, b, alo, ahi, blo, bhi, best) ==
  LET starts == {p \in (alo..ahi) \X (blo..bhi) :
                   RunLen(a, b, p[1], p[2], ahi, bhi) = best}
  IN  Append(CHOOSE p \in starts :
               \A q \in starts : p[1] < q[1] \/ (p[1] = q[1] /\ p[2] <= q[2]),
             best)

\* SequenceMatcher.find_longest_match on non-empty ranges: the longest common
\* block of a[alo..ahi] and b[blo..bhi]; of those the one starting earliest in
\* a, and then earliest in b. <<i, j, k>>, k = 0 when nothing matches.
find_longest_match(a, b, alo, ahi, blo, bhi) ==
  FirstOfLen(a, b, alo, ahi, blo, bhi, LongestLen(a, b, alo, ahi, blo, bhi))

\* Sum of the sizes of SequenceMatcher.get_matching_blocks(): the longest
\* block, then the same to its left and to its right.
RECURSIVE MatchingChars(_, _, _, _, _, _)
RECURSIVE MatchingAround(_, _, _, _, _, _, _)
MatchingChars(a, b, alo, ahi, blo, bhi) ==
  IF alo > ahi \/ blo > bhi THEN 0
  ELSE MatchingAround(a, b, alo, ahi, blo, bhi,
                      find_longest_match(a, b, alo, ahi, blo, bhi))

MatchingAround(a, b, alo, ahi, blo, bhi, m) ==
  IF m[3] = 0 THEN 0
  ELSE m[3]
       + MatchingChars(a, b, alo, m[1] - 1, blo, m[2] - 1)
       + MatchingChars(a, b, m[1] + m[3], ahi, m[2] + m[3], bhi)

\* Number of characters of b that can be paired with an equal character of a
\* (multiset intersection), as SequenceMatcher.quick_ratio counts them.
QuickMatches(a, b) ==
  LET count(s, c) == Cardinality({i \in 1..Len(s) : s[i] = c})
      chars == Range(b)
      min(x, y) == IF x < y THEN x ELSE y
      RECURSIVE Sum(_)
      Sum(cs) == IF cs = {} THEN 0
                 ELSE LET c == CHOOSE x \in cs : TRUE
                      IN  min(count(a, c), count(b, c)) + Sum(cs \ {c})
  IN  Sum(chars)

\* Cutoff of get_close_matches in correct_month_name, in tenths.
CutoffNum == 7

\* Cutoff of get_close_matches in detect_month, in tenths.
DetectCutoffNum == 6

CutoffDen == 10

\* 2.0 * matches / length >= cutoff, the cutoff being num tenths.
RatioAtLeastCutoff(matches, length, num) ==
  2 * matches * CutoffDen >= num * length

\* s.real_quick_ratio() >= cutoff and s.quick_ratio() >= cutoff and
\* s.ratio() >= cutoff, with seq1 = x (the possibility), seq2 = word.
IsCloseMatch(x, word, num) ==
  LET la == Len(x)
      lb == Len(word)
      shorter == IF la < lb THEN la ELSE lb
  IN  /\ RatioAtLeastCutoff(shorter, la + lb, num)
      /\ RatioAtLeastCutoff(QuickMatches(x, word), la + lb, num)
      /\ RatioAtLeastCutoff(MatchingChars(x, word, 1, la, 1, lb), la + lb, num)

\* Python's string order a < b on month names.
RECURSIVE StrLess(_, _)
StrLess(a, b) ==
  IF Len(b) = 0 THEN FALSE
  ELSE IF Len(a) = 0 THEN TRUE
  ELSE IF a[1] = b[1] THEN StrLess(Tail(a), Tail(b))
  ELSE CharOrd(a[1]) < CharOrd(b[1])

\* list(self.months.keys()) + list(self.months_abbr.keys()), as a set (the
\* best match does not depend on the order or on May occurring twice).
all_months == DOMAIN months \cup DOMAIN months_abbr

\* SequenceMatcher(None, x, word).ratio() as the pair <<matches, length>>.
Score(x, word) == <<MatchingChars(x, word, 1, Len(x), 1, Len(word)), Len(x) + Len(word)>>

\* (ratio, string) of x is larger than that of y: the ratios cross-multiplied,
\* ties decided by the strings.
BetterScored(x, sx, y, sy) ==
  \/ sx[1] * sy[2] > sy[1] * sx[2]
  \/ (sx[1] * sy[2] = sy[1] * sx[2] /\ StrLess(y, x))

\* The largest of the close possibilities, or None when there is none.
BestMatch(close, word) ==
  IF close = {} THEN None
  ELSE Some(CHOOSE x \in close :
              \A y \in close \ {x} : BetterScored(x, Score(x, word), y, Score(y, word)))

\* get_close_matches(word, possibilities, n=1, cutoff=num/10): the possibility
\* with the largest (ratio, string) among those reaching the cutoff, or None.
get_close_matches(word, possibilities, num) ==
  BestMatch({x \in possibilities : IsCloseMatch(x, word, num)}, word)

\* The capitalised words the tokens of the vocabulary and of the examples
\* give, whichever separator class splits them.
KnownWords ==
  UNION { {capitalize(w) : w \in Range(split(ReSubSpace(CheckDateSeparators, title(x))))}
          : x \in Vocabulary \cup Examples }

\* get_close_matches on the known words against the names of the tables as
\* built, computed once.
CloseMatchMemo ==
  [w \in KnownWords |->
     get_close_matches(w, DOMAIN MonthsBuilt \cup DOMAIN MonthsAbbrBuilt, CutoffNum)]

\* get_close_matches(w, all_months, n=1, cutoff=0.7), looked up where it was
\* computed before: for a known word while the tables are as built.
CloseMatchOf(w) ==
  IF months = MonthsBuilt /\ months_abbr = MonthsAbbrBuilt /\ w \in KnownWords
  THEN CloseMatchMemo[w]
  ELSE get_close_matches(w, all_months, CutoffNum)

\* correct_month_name accepting only a capitalised word that is a month name
\* or abbreviation as it stands.
correct_month_name_ExactOnly(month_str) ==
  IF capitalize(month_str) \in all_months THEN Some(capitalize(month_str)) ELSE None

\* correct_month_name
correct_month_name(month_str) == CloseMatchOf(capitalize(month_str))

\* ------------------------------------------------ the heuristic pipeline
\* convert_string without the "0000" rule: strip and title only.
convert_string_KeepsZeros(date_str) == title(strip(date_str))

\* convert_string: "0000" -> "2000" wherever it occurs, then strip and title.
convert_string(date_str) ==
  LET zeros == <<"0","0","0","0">>
      y2k == <<"2","0","0","0">>
      replaced == IF Contains(date_str, zeros)
                  THEN replace(date_str, zeros, y2k) ELSE date_str
  IN  title(strip(replaced))

\* The character class of re.sub(r"[-/,]", " ", ...) in determine_day_and_year.
HeuristicSeparators == {"-", "/", ","}

\* An error text with the values formatted into it.
ErrorMsg(text, args) == [text |-> text, args |-> args]

\* The result structure of determine_day_and_year as first built.
NewResult(date_str) ==
  [input_date |-> date_str, day |-> None, month |-> None, year |-> None,
   day_name |-> None, leap_year |-> None, valid_last_day |-> None,
   error |-> None, is_valid |-> FALSE]

\* Line 57: self.months.get(name) or self.months_abbr.get(name)
MonthNumber(name) ==
  IF ~IsNone(months_get(name)) THEN months_get(name) ELSE months_abbr_get(name)

\* The month loop: the first part that fuzzy-matches a month name or is a key
\* of months_num. <<month, month_index>>, <<None, -1>> when the loop ends
\* without a break.
RECURSIVE FindMonth(_, _)
RECURSIVE FindMonthAt(_, _, _)
FindMonth(parts, i) ==
  IF i > Len(parts) THEN <<None, -1>>
  ELSE FindMonthAt(parts, i, correct_month_name(parts[i]))

\* One turn of the loop without the numeric rule: only a month name or
\* abbreviation ends the loop.
FindMonthAt_NamesOnly(parts, i, corrected_month) ==
  IF ~IsNone(corrected_month)
  THEN <<MonthNumber(Val(corrected_month)), i>>
  ELSE FindMonth(parts, i + 1)

\* One turn of the loop, corrected_month being correct_month_name(parts[i]).
FindMonthAt(parts, i, corrected_month) ==
  IF ~IsNone(corrected_month)
  THEN <<MonthNumber(Val(corrected_month)), i>>
  ELSE IF isdigit(parts[i]) /\ months_num_has(parts[i])
       THEN <<Some(StrToInt(parts[i])), i>>
       ELSE FindMonth(parts, i + 1)

\* int(p) raises ValueError for a part that is not a decimal number (the
\* model's texts have no sign, underscore or non-ASCII digit).
int_ok(p) == isdigit(p)

\* The parts other than the month's, in order.
OtherParts(parts, month_index) ==
  LET idx == {i \in 1..Len(parts) : i # month_index}
      RECURSIVE Pick(_)
      Pick(i) == IF i > Len(parts) THEN <<>>
                 ELSE IF i \in idx THEN <<parts[i]>> \o Pick(i + 1)
                 ELSE Pick(i + 1)
  IN  Pick(1)

\* Lines 77-83 taking the larger number as the year when neither exceeds 31.
DayAndYear_LargerIsYear(first_num, second_num) ==
  IF first_num > 31 THEN [year |-> first_num, day |-> second_num]
  ELSE IF second_num > 31 \/ second_num > first_num
       THEN [year |-> second_num, day |-> first_num]
  ELSE [year |-> first_num, day |-> second_num]

\* Lines 77-83: which of the two numbers is the year, which the day.
DayAndYear(first_num, second_num) ==
  IF first_num > 31 THEN [year |-> first_num, day |-> second_num]
  ELSE IF second_num > 31 THEN [year |-> second_num, day |-> first_num]
  ELSE [year |-> first_num, day |-> second_num]

\* Line 86 with the two-digit years counted from 1900.
PromoteYear_NineteenHundreds(year) == IF year < 100 THEN 1900 + year ELSE year

\* Line 86: two-digit years.
PromoteYear(year) == IF year < 100 THEN 2000 + year ELSE year

\* Lines 104-113: the day name and the final values, or "Invalid date" when
\* datetime(year, month, day) raises.
WithDayName(result, year, month, day) ==
  IF ~datetime_ok(year, month, day)
  THEN [result EXCEPT !.error = Some(ErrorMsg("Invalid date", <<>>))]
  ELSE [result EXCEPT !.day_name = Some(strftime_A(year, month, day)),
                      !.day = Some(day),
                      !.month = Some(month),
                      !.year = Some(year)]

\* Lines 97-102 with the day replaced silently, no error recorded.
ClampDay_NoError(result, year, month, day, valid_last_day) ==
  IF day > valid_last_day
  THEN WithDayName(result, year, month, valid_last_day)
  ELSE WithDayName([result EXCEPT !.is_valid = TRUE], year, month, day)

\* Lines 97-102: a day beyond valid_last_day is replaced by it, with the
\* error; any other day makes the record valid.
ClampDay(result, year, month, day, valid_last_day) ==
  IF day > valid_last_day
  THEN WithDayName(
         [result EXCEPT !.error = Some(ErrorMsg(
            "Invalid day ({day}). Replaced with last valid day {valid_last_day}.",
            <<day, valid_last_day>>))],
         year, month, valid_last_day)
  ELSE WithDayName([result EXCEPT !.is_valid = TRUE], year, month, day)

\* Lines 87-95: leap_year and valid_last_day, for the promoted year.
WithLastDay(result, year, month, day) ==
  IF ~monthrange_ok(year, month)
  THEN [result EXCEPT !.leap_year = Some(check_leap_year(year)),
                      !.error = Some(ErrorMsg("Invalid month or year.", <<>>))]
  ELSE ClampDay([result EXCEPT !.leap_year = Some(check_leap_year(year)),
                               !.valid_last_day = Some(monthrange_last(year, month))],
                year, month, day, monthrange_last(year, month))

\* Lines 85-115: validation of (year, month, day) onto the result.
ValidateInto(result, year, month, day) ==
  WithLastDay(result, PromoteYear(year), month, day)

\* Lines 34-38: the normalised text determine_day_and_year tokenises.
Normalised(date_str0) == ReSubSpace(HeuristicSeparators, convert_string(date_str0))

\* Lines 68-83 with a single remaining integer read as the year and the day
\* taken to be 1.
ResolveNumbers_DayDefaultsToOne(month, others) ==
  IF Len(others) = 1 /\ int_ok(others[1])
  THEN [status |-> "ok", month |-> month, year |-> StrToInt(others[1]), day |-> 1]
  ELSE IF (\E i \in 1..Len(others) : ~int_ok(others[i])) \/ Len(others) # 2
  THEN [status |-> "bad_numbers"]
  ELSE [status |-> "ok", month |-> month,
        year |-> DayAndYear(StrToInt(others[1]), StrToInt(others[2])).year,
        day |-> DayAndYear(StrToInt(others[1]), StrToInt(others[2])).day]

\* Lines 68-83: the month found, the other parts decide day and year.
ResolveNumbers(month, others) ==
  IF (\E i \in 1..Len(others) : ~int_ok(others[i])) \/ Len(others) # 2
  THEN [status |-> "bad_numbers"]
  ELSE [status |-> "ok", month |-> month,
        year |-> DayAndYear(StrToInt(others[1]), StrToInt(others[2])).year,
        day |-> DayAndYear(StrToInt(others[1]), StrToInt(others[2])).day]

\* Lines 63-83 looking at the numeric fields before the month: a part that
\* is not an integer is reported even when no month was found.
ResolveWithMonth_NumbersFirst(parts, found) ==
  IF IsNone(found[1])
  THEN IF \E i \in 1..Len(parts) : ~int_ok(parts[i])
       THEN [status |-> "bad_numbers"] ELSE [status |-> "no_month"]
  ELSE ResolveNumbers(Val(found[1]), OtherParts(parts, found[2]))

\* Lines 63-83, found being the outcome of the month loop.
ResolveWithMonth(parts, found) ==
  IF IsNone(found[1]) THEN [status |-> "no_month"]
  ELSE ResolveNumbers(Val(found[1]), OtherParts(parts, found[2]))

ResolveParts(parts) == ResolveWithMonth(parts, FindMonth(parts, 1))

\* Lines 53-83: the fields the pipeline resolves from the text before it
\* validates them: "no_month" when the month loop finds none, "bad_numbers"
\* when the other parts are not exactly two integers, else the month and the
\* year and day as assigned (the year not yet promoted).
ResolveFields(date_str0) == ResolveParts(split(Normalised(date_str0)))

\* Lines 63-115 on the fresh result and the resolved fields.
DetermineFrom(result, f) ==
  IF f.status = "no_month"
  THEN [result EXCEPT !.error =
          Some(ErrorMsg("Invalid month found. Could not correct.", <<>>))]
  ELSE IF f.status = "bad_numbers"
  THEN [result EXCEPT !.error =
          Some(ErrorMsg("Invalid numeric values in date.", <<>>))]
  ELSE ValidateInto(result, f.year, f.month, f.day)

\* determine_day_and_year
determine_day_and_year(date_str0) ==
  DetermineFrom(NewResult(Normalised(date_str0)), ResolveFields(date_str0))

\* ---------------------------------------------------------- the formatter
FallbackDate ==
  <<"0","1","-","J","a","n","u","a","r","y","-","2","0","0","0">>

\* calendar.month_name[month]: a list of 13 entries, entry 0 the empty
\* string, indexed as a Python list (negative indices count from the end);
\* None when the lookup raises (index out of range, or month is None).
month_name_at(month) ==
  IF IsNone(month) THEN None
  ELSE LET m == Val(month)
       IN  IF m >= 1 /\ m <= 12 THEN Some(MonthNames[m])
           ELSE IF m = 0 \/ m = -13 THEN Some(<<>>)
           ELSE IF m >= -12 /\ m <= -1 THEN Some(MonthNames[m + 13])
           ELSE None

\* f"{year}" of an int or of None.
FormatYear(year) ==
  IF IsNone(year) THEN <<"N","o","n","e">> ELSE IntToStr(Val(year))

\* format_date with the day written without zero padding.
format_date_NoPadding(day, month, year) ==
  LET month_name == month_name_at(month)
  IN  IF IsNone(month_name) \/ IsNone(day) THEN FallbackDate
      ELSE IntToStr(Val(day)) \o <<"-">> \o Val(month_name) \o <<"-">>
           \o FormatYear(year)

\* format_date: day, month, year are optional ints.
format_date(day, month, year) ==
  LET month_name == month_name_at(month)
  IN  IF IsNone(month_name) \/ IsNone(day) THEN FallbackDate
      ELSE Format02d(Val(day)) \o <<"-">> \o Val(month_name) \o <<"-">>
           \o FormatYear(year)

InvalidOpen == <<"I","n","v","a","l","i","d"," ","(">>

\* Lines 205-212 without the else branch: the record is formatted whether or
\* not it is valid.
ConvertedAndCorrected_AlwaysFormats(result) ==
  LET converted_date == format_date(result.day, result.month, result.year)
  IN  <<converted_date, converted_date>>

\* Lines 205-212 of get_converted_and_corrected_date, on the record.
ConvertedAndCorrected(result) ==
  IF result.is_valid
  THEN LET converted_date == format_date(result.day, result.month, result.year)
       IN  <<converted_date, converted_date>>
  ELSE <<InvalidOpen \o result.input_date \o <<")">>,
         format_date(result.valid_last_day, result.month, result.year)>>

\* ----------------------------------------------------------- detect_month
\* str.upper()
upper(s) == [i \in 1..Len(s) |-> ToUpper(s[i])] \o <<>>

\* The list valid_months: abbreviations, full names, upper-cased full names.
valid_months ==
  Range(MonthAbbr) \cup Range(MonthNames) \cup {upper(MonthNames[i]) : i \in 1..12}

\* \w of the regular expression, on the model's characters.
IsWordChar(c) == IsCased(c) \/ IsDigitChar(c) \/ c = "_"

\* \b before position p (1..Len(s)+1).
Boundary(s, p) ==
  (p > 1 /\ IsWordChar(s[p - 1])) # (p <= Len(s) /\ IsWordChar(s[p]))

\* w occurs in s at p, compared as re.IGNORECASE compares.
EqualFoldAt(s, w, p) ==
  /\ p + Len(w) - 1 <= Len(s)
  /\ \A k \in 1..Len(w) : ToLower(s[p + k - 1]) = ToLower(w[k])

\* (?:uary|ch|ril|ember|ust|e)? : the alternatives in the order they are
\* tried, the empty match last.
MonthSuffixes ==
  << <<"u","a","r","y">>, <<"c","h">>, <<"r","i","l">>,
     <<"e","m","b","e","r">>, <<"u","s","t">>, <<"e">>, <<>> >>

\* Where the match ends that begins with the suffix at p: the first
\* alternative that is followed by \b; 0 when none is.
SuffixEnd(s, p) ==
  LET ok == {i \in 1..Len(MonthSuffixes) :
               /\ EqualFoldAt(s, MonthSuffixes[i], p)
               /\ Boundary(s, p + Len(MonthSuffixes[i]))}
  IN  IF ok = {} THEN 0
      ELSE p + Len(MonthSuffixes[CHOOSE i \in ok : \A j \in ok : i <= j])

\* Where a match of month_pattern that begins at p ends (one past its last
\* character); 0 when there is none.
MonthMatchEnd(s, p) ==
  IF Boundary(s, p) /\ \E k \in 1..12 : EqualFoldAt(s, MonthAbbr[k], p)
  THEN SuffixEnd(s, p + 3) ELSE 0

\* re.search(month_pattern, s, re.IGNORECASE): match.group() of the leftmost
\* match, or None.
month_search(s) ==
  LET starts == {p \in 1..Len(s) : MonthMatchEnd(s, p) > 0}
  IN  IF starts = {} THEN None
      ELSE Some(SubSeq(s, CHOOSE p \in starts : \A q \in starts : p <= q,
                       MonthMatchEnd(s, CHOOSE p \in starts : \A q \in starts : p <= q) - 1))

\* Lines 346-348 and 352-354: a name longer than three characters is looked
\* up in months, any other in months_abbr.
MonthOfName(name) ==
  IF Len(name) > 3 THEN months_get(name) ELSE months_abbr_get(name)

\* Lines 343-357, match being re.search's group and closest_match the result
\* of get_close_matches.
DetectFrom(match, closest_match) ==
  IF ~IsNone(match) THEN <<TRUE, MonthOfName(Val(match))>>
  ELSE IF ~IsNone(closest_match) THEN <<TRUE, MonthOfName(Val(closest_match))>>
  ELSE <<FALSE, None>>

\* detect_month: the pair it returns.
detect_month(date_str0) ==
  IF isdigit(date_str0) THEN <<TRUE, dict_get(months_num, date_str0)>>
  ELSE DetectFrom(month_search(date_str0),
                  get_close_matches(date_str0, valid_months, DetectCutoffNum))

\* ------------------------------------------------- check_european_format
Returned(value) == [kind |-> "returned", value |-> value]

Raised(exception) == [kind |-> "raised", value |-> exception]

\* Lines 143-157 on the three parts: the month is the corrected month name, a
\* string, and calendar.monthrange compares it with 1 and 12, which raises
\* TypeError; the bare except turns that into the error. Lines 159-175 are
\* never reached.
EuropeanThreeParts(result, day, corrected_month, year) ==
  IF IsNone(corrected_month)
  THEN [result EXCEPT !.error =
          Some(ErrorMsg("Invalid month found. Could not correct.", <<>>))]
  ELSE [result EXCEPT !.leap_year = Some(check_leap_year(year)),
                      !.error = Some(ErrorMsg("Invalid month or year.", <<>>))]

\* Lines 139-180, on the fresh result and the parts: int(day) and int(year)
\* are outside any try.
EuropeanFrom(result, parts) ==
  IF Len(parts) # 3
  THEN Returned([result EXCEPT !.error = Some(ErrorMsg(
                   "Invalid date format. Expected format: dd-month-yyyy.", <<>>))])
  ELSE IF ~int_ok(parts[1]) \/ ~int_ok(parts[3]) THEN Raised("ValueError")
  ELSE Returned(EuropeanThreeParts(result, StrToInt(parts[1]),
                                   correct_month_name(parts[2]),
                                   StrToInt(parts[3])))

\* check_european_format: the record it returns or the exception it raises.
check_european_format(date_str0) ==
  EuropeanFrom(NewResult(Normalised(date_str0)), split(Normalised(date_str0)))

\* ---------------------------------------------------- the strict parser
\* The templates with each day-first template ahead of its month-first twin.
formats_DayFirst ==
  << <<"d","/","m","/","Y">>, <<"m","/","d","/","Y">>,
     <<"d","-","m","-","Y">>, <<"m","-","d","-","Y">>,
     <<"d"," ","m"," ","Y">>, <<"m"," ","d"," ","Y">>,
     <<"Y","-","m","-","d">>, <<"Y","-","d","-","m">>,
     <<"Y"," ","m"," ","d">>, <<"Y"," ","d"," ","m">> >>

\* The templates of parse_date, in order. "m", "d", "Y" stand for the
\* directives %m, %d, %Y; every other element is a literal character.
formats ==
  << <<"m","/","d","/","Y">>, <<"d","/","m","/","Y">>,
     <<"m","-","d","-","Y">>, <<"d","-","m","-","Y">>,
     <<"d"," ","m"," ","Y">>, <<"m"," ","d"," ","Y">>,
     <<"Y","-","m","-","d">>, <<"Y","-","d","-","m">>,
     <<"Y"," ","m"," ","d">>, <<"Y"," ","d"," ","m">> >>

IsDirective(e) == e \in {"m", "d", "Y"}

\* The lengths of text a directive's regular expression can match at s[i]:
\* %d (3[01]|[12]\d|0[1-9]|[1-9]| [1-9]), %m (1[0-2]|0[1-9]|[1-9]),
\* %Y (\d\d\d\d).
DirectiveLens(e, s, i) ==
  LET has(k) == i + k - 1 <= Len(s)
      c1 == s[i]
      c2 == s[i + 1]
      nz(c) == IsDigitChar(c) /\ c # "0"
  IN  IF e = "Y"
      THEN {k \in {4} : has(4) /\ \A x \in 0..3 : IsDigitChar(s[i + x])}
      ELSE IF e = "m"
      THEN {k \in {1} : has(1) /\ nz(c1)}
           \cup {k \in {2} : has(2) /\ \/ (c1 = "1" /\ c2 \in {"0","1","2"})
                                       \/ (c1 = "0" /\ nz(c2))}
      ELSE {k \in {1} : has(1) /\ nz(c1)}
           \cup {k \in {2} : has(2) /\ \/ (c1 = "3" /\ c2 \in {"0","1"})
                                       \/ (c1 \in {"1","2"} /\ IsDigitChar(c2))
                                       \/ (c1 = "0" /\ nz(c2))
                                       \/ (c1 = " " /\ nz(c2))}

\* The lengths of text a literal of the template can match at s[i]: a blank
\* of the template is \s+, any other character is itself.
RECURSIVE SpaceRun(_, _)
SpaceRun(s, i) == IF i <= Len(s) /\ IsSpace(s[i]) THEN 1 + SpaceRun(s, i + 1) ELSE 0

LiteralLens(e, s, i) ==
  IF e = " " THEN 1..SpaceRun(s, i)
  ELSE {k \in {1} : i <= Len(s) /\ s[i] = e}

\* Every way the template fmt[fi..] matches the whole of s[i..]: the set of
\* [directive -> matched text] functions. vals is what matched so far.
RECURSIVE MatchAll(_, _, _, _, _)
MatchAll(fmt, fi, s, i, vals) ==
  IF fi > Len(fmt) THEN (IF i = Len(s) + 1 THEN {vals} ELSE {})
  ELSE LET e == fmt[fi]
       IN  IF IsDirective(e)
           THEN UNION { MatchAll(fmt, fi + 1, s, i + k,
                                 [vals EXCEPT ![e] = SubSeq(s, i, i + k - 1)])
                        : k \in DirectiveLens(e, s, i) }
           ELSE UNION { MatchAll(fmt, fi + 1, s, i + k, vals)
                        : k \in LiteralLens(e, s, i) }

\* The date of the matched texts, or None for a day the month does not have.
DateOf(year, month, day) ==
  IF datetime_ok(year, month, day)
  THEN Some([year |-> year, month |-> month, day |-> day])
  ELSE None

DateOfMatch(v) == DateOf(StrToInt(v["Y"]), StrToInt(v["m"]), StrToInt(strip(v["d"])))

DateOfMatches(ms) == IF ms = {} THEN None ELSE DateOfMatch(CHOOSE x \in ms : TRUE)

\* datetime.strptime(date_str, fmt).date(): the date, or None for ValueError
\* (no match, unconverted data, or a day the month does not have).
strptime(date_str, fmt) ==
  DateOfMatches(MatchAll(fmt, 1, date_str, 1, [e \in {"m", "d", "Y"} |-> <<>>]))

\* The loop over formats: the date of the first template that parses.
RECURSIVE StrictParse(_, _)
RECURSIVE StrictParseAt(_, _, _)
StrictParse(date_str, k) ==
  IF k > Len(formats) THEN None
  ELSE StrictParseAt(date_str, k, strptime(date_str, formats[k]))

StrictParseAt(date_str, k, d) ==
  IF ~IsNone(d) THEN d ELSE StrictParse(date_str, k + 1)

\* dateutil's parser.parse is not part of the repository. Its outcome is
\* left open: it may raise (None) or return some date; on a text without any
\* token it raises.
DateutilDates ==
  { [year |-> 2023, month |-> 3, day |-> 15],
    [year |-> 2000, month |-> 1, day |-> 1] }

parser_parse(date_str) ==
  IF split(date_str) = <<>> THEN {None}
  ELSE {None} \cup {Some(d) : d \in DateutilDates}

\* Lines 272-276: the fallback is consulted when no template gave a date.
WithFallback(date_str, d) ==
  IF ~IsNone(d) THEN {d} ELSE parser_parse(date_str)

\* parse_date: the set of values it can return (a date, or None).
parse_date(date_str) == WithFallback(date_str, StrictParse(date_str, 1))

\* date.strftime("%d-%B-%Y")
strftime_dBY(d) ==
  Format02d(d.day) \o <<"-">> \o MonthNames[d.month] \o <<"-">> \o IntToStr(d.year)


\* ------------------------------------------------------- the state machine
VARIABLES
  pc,        \* where the current call stands
  op,        \* the entry point that was called
  date_str,  \* the text the entry point was called with
  fargs,     \* the arguments of a call that takes no text
  parsed,    \* check_date: what parse_date returned
  result,    \* the record determine_day_and_year returned to the caller
  runs,      \* how many times determine_day_and_year ran in this call
  ret,       \* the value the entry point returned
  exc,       \* the exception the entry point ended with
  file,      \* converted_date.json: the records appended to it
  log        \* the calls completed on the instance, with their outcomes

vars ==
  <<pc, op, date_str, fargs, parsed, result, runs, ret, exc, file,
    months, months_abbr, months_num, log>>

\* The attributes of the instance, which no call assigns.
tables == <<months, months_abbr, months_num>>

\* Arguments of direct format_date calls.
FormatDays == {None, Some(-5), Some(0), Some(5), Some(31), Some(100)}

FormatMonths ==
  {None, Some(-14), Some(-13), Some(-12), Some(-1), Some(0), Some(1), Some(2),
   Some(11), Some(12), Some(13)}

FormatYears == {None, Some(0), Some(150), Some(2024), Some(12345)}

\* Years of direct check_leap_year calls.
LeapYearArgs ==
  {-400, -100, -4, -1, 0, 1, 4, 100, 400, 1900, 2000, 2023, 2024, 2100, 12345}

\* Texts of direct detect_month calls.
DetectMonthArgs ==
  { <<"0","2">>, <<"1","2">>, <<"1","3">>,
    <<"F","e","b">>, <<"m","a","r","c","h">>, <<"J","u","l","y">>,
    <<"N","o","v","e","m","b","r">>, <<"J","A","N","U","A","R","Y">>,
    <<"x","y","z">>, <<"1","5"," ","M","a","r","c","h"," ","2","0","2","3">>,
    <<"d","e","c","e","m","b","e","r","s">>, <<>> }

\* Largest number of calls made one after another on one instance.
MaxCalls == 3

\* The texts of the calls that follow one another on one instance.
CallTexts ==
  { <<"2","0","2","4","-","0","2","-","3","0">>,
    <<"3","1","-","N","o","v","e","m","b","r","-","2","0","2","3">> }

\* The month tokens of detect_month calls that follow one another.
CallTokens == { <<"0","2">>, <<"N","o","v","e","m","b","r">> }

\* After MyDateTime(): the tables built, no call made, nothing written.
Init ==
  /\ pc = "idle"
  /\ op = "none"
  /\ date_str = <<>>
  /\ fargs = <<>>
  /\ parsed = None
  /\ result = None
  /\ runs = 0
  /\ ret = None
  /\ exc = None
  /\ file = <<>>
  /\ months = MonthsBuilt
  /\ months_abbr = MonthsAbbrBuilt
  /\ months_num = MonthsNumBuilt
  /\ log = <<>>

\* The call op(arg) has ended with the outcome out.
Logged(name, arg, out) == Append(log, [op |-> name, arg |-> arg, out |-> out])

\* A direct call of determine_day_and_year with a text of S.
DetermineCall(S) ==
  /\ pc = "idle"
  /\ \E s \in S :
    /\ op' = "determine_day_and_year"
    /\ date_str' = s
    /\ result' = Some(determine_day_and_year(s))
    /\ runs' = runs + 1
    /\ ret' = result'
    /\ pc' = "returned"
    /\ log' = Logged("determine_day_and_year", s, Returned(Val(ret')))
    /\ UNCHANGED <<fargs, parsed, exc, file, tables>>

call_determine_day_and_year == DetermineCall(Inputs)

\* save_to_json: appends the record to the file.
save_to_json(data) == Append(file, data)

\* get_converted_and_corrected_date with a text of S.
ConvertedCall(S) ==
  /\ pc = "idle"
  /\ \E s \in S :
    /\ op' = "get_converted_and_corrected_date"
    /\ date_str' = s
    /\ result' = Some(determine_day_and_year(s))
    /\ runs' = runs + 1
    /\ file' = save_to_json(Val(result'))
    /\ ret' = Some(ConvertedAndCorrected(Val(result')))
    /\ pc' = "returned"
    /\ log' = Logged("get_converted_and_corrected_date", s, Returned(Val(ret')))
    /\ UNCHANGED <<fargs, parsed, exc, tables>>

get_converted_and_corrected_date == ConvertedCall(Inputs)

\* A direct call of format_date with arguments of D, M, Y.
FormatCall(D, M, Y) ==
  /\ pc = "idle"
  /\ \E day \in D, month \in M, year \in Y :
    /\ op' = "format_date"
    /\ fargs' = <<day, month, year>>
    /\ ret' = Some(format_date(day, month, year))
    /\ pc' = "returned"
    /\ log' = Logged("format_date", fargs', Returned(Val(ret')))
    /\ UNCHANGED <<date_str, parsed, result, runs, exc, file, tables>>

call_format_date == FormatCall(FormatDays, FormatMonths, FormatYears)

\* A direct call of check_leap_year.
call_check_leap_year ==
  /\ pc = "idle"
  /\ \E year \in LeapYearArgs :
    /\ op' = "check_leap_year"
    /\ fargs' = <<year>>
    /\ ret' = Some(check_leap_year(year))
    /\ pc' = "returned"
    /\ log' = Logged("check_leap_year", fargs', Returned(Val(ret')))
    /\ UNCHANGED <<date_str, parsed, result, runs, exc, file, tables>>

\* detect_month keeping the number it found for a digit text in months_num.
DetectMonthCall_Caching(S) ==
  /\ pc = "idle"
  /\ \E s \in S :
    /\ op' = "detect_month"
    /\ date_str' = s
    /\ ret' = Some(detect_month(s))
    /\ pc' = "returned"
    /\ log' = Logged("detect_month", s, Returned(Val(ret')))
    /\ months_num' = IF isdigit(s) /\ StrToInt(s) \in 1..12
                     THEN [key \in DOMAIN months_num \cup {s} |-> StrToInt(key)]
                     ELSE months_num
    /\ UNCHANGED <<fargs, parsed, result, runs, exc, file, months, months_abbr>>

\* A direct call of detect_month with a text of S.
DetectMonthCall(S) ==
  /\ pc = "idle"
  /\ \E s \in S :
    /\ op' = "detect_month"
    /\ date_str' = s
    /\ ret' = Some(detect_month(s))
    /\ pc' = "returned"
    /\ log' = Logged("detect_month", s, Returned(Val(ret')))
    /\ UNCHANGED <<fargs, parsed, result, runs, exc, file, tables>>

call_detect_month == DetectMonthCall(DetectMonthArgs)

\* A direct call of check_european_format with a text of S: it returns its
\* record or ends with the exception of int().
EuropeanCall(S) ==
  /\ pc = "idle"
  /\ \E s \in S :
    /\ op' = "check_european_format"
    /\ date_str' = s
    /\ IF check_european_format(s).kind = "returned"
       THEN /\ ret' = Some(check_european_format(s).value)
            /\ exc' = exc
            /\ pc' = "returned"
       ELSE /\ ret' = ret
            /\ exc' = Some(check_european_format(s).value)
            /\ pc' = "raised"
    /\ log' = Logged("check_european_format", s, check_european_format(s))
    /\ UNCHANGED <<fargs, parsed, result, runs, file, tables>>

call_check_european_format == EuropeanCall(Inputs)

\* A direct call of parse_date with a text of S: it returns a date or None.
ParseDateCall(S) ==
  /\ pc = "idle"
  /\ \E s \in S :
    \E d \in parse_date(s) :
      /\ op' = "parse_date"
      /\ date_str' = s
      /\ parsed' = d
      /\ ret' = Some(d)
      /\ pc' = "returned"
      /\ log' = Logged("parse_date", s, Returned(d))
      /\ UNCHANGED <<fargs, result, runs, exc, file, tables>>

call_parse_date == ParseDateCall(Inputs)

\* check_date handing the raw text to parse_date, the separators not
\* replaced.
CheckDateCall_RawText(S) ==
  /\ pc = "idle"
  /\ \E s \in S :
    \E d \in parse_date(s) :
      /\ op' = "check_date"
      /\ date_str' = s
      /\ parsed' = d
      /\ IF ~IsNone(d)
         THEN /\ ret' = Some(strftime_dBY(Val(d)))
              /\ pc' = "returned"
              /\ log' = Logged("check_date", s, Returned(Val(ret')))
         ELSE /\ ret' = ret
              /\ pc' = "except"
              /\ log' = log
      /\ UNCHANGED <<fargs, result, runs, exc, file, tables>>

\* check_date with a text of S, lines 281-286: the separators are replaced,
\* parse_date is tried; its date is formatted and returned, and anything else
\* (None has no strftime) lands in the except branch.
CheckDateCall(S) ==
  /\ pc = "idle"
  /\ \E s \in S :
    \E d \in parse_date(ReSubSpace(CheckDateSeparators, s)) :
      /\ op' = "check_date"
      /\ date_str' = s
      /\ parsed' = d
      /\ IF ~IsNone(d)
         THEN /\ ret' = Some(strftime_dBY(Val(d)))
              /\ pc' = "returned"
              /\ log' = Logged("check_date", s, Returned(Val(ret')))
         ELSE /\ ret' = ret
              /\ pc' = "except"
              /\ log' = log
      /\ UNCHANGED <<fargs, result, runs, exc, file, tables>>

check_date_parse == CheckDateCall(Inputs)

\* check_date, lines 286-289: the except branch runs the heuristic pipeline
\* on the text with its separators replaced and keeps the record in date_str.
check_date_heuristic ==
  /\ pc = "except"
  /\ result' = Some(determine_day_and_year(ReSubSpace(CheckDateSeparators, date_str)))
  /\ runs' = runs + 1
  /\ pc' = "after_heuristic"
  /\ UNCHANGED <<op, date_str, fargs, parsed, ret, exc, file, tables, log>>

\* check_date, line 292: date_str now is the record (a dict), which has no
\* split: AttributeError, outside any try. Lines 293-318 are never reached.
check_date_split ==
  /\ pc = "after_heuristic"
  /\ exc' = Some("AttributeError")
  /\ pc' = "raised"
  /\ log' = Logged("check_date", date_str, Raised("AttributeError"))
  /\ UNCHANGED <<op, date_str, fargs, parsed, result, runs, ret, file, tables>>

\* The caller makes another call on the same instance: the locals of the
\* call that ended are gone, the instance and the file stay.
next_call ==
  /\ pc \in {"returned", "raised"}
  /\ Len(log) < MaxCalls
  /\ pc' = "idle"
  /\ op' = "none"
  /\ date_str' = <<>>
  /\ fargs' = <<>>
  /\ parsed' = None
  /\ result' = None
  /\ runs' = 0
  /\ ret' = None
  /\ exc' = None
  /\ UNCHANGED <<file, tables, log>>

\* One call on a fresh instance, with any text or arguments of the model.
Next ==
  \/ call_determine_day_and_year
  \/ get_converted_and_corrected_date
  \/ call_format_date
  \/ call_check_leap_year
  \/ call_detect_month
  \/ call_check_european_format
  \/ call_parse_date
  \/ check_date_parse
  \/ check_date_heuristic
  \/ check_date_split

Spec == Init /\ [][Next]_vars

\* Up to MaxCalls calls one after another on one instance, with the texts of
\* CallTexts and CallTokens.
NextCalls ==
  \/ DetermineCall(CallTexts)
  \/ ConvertedCall(CallTexts)
  \/ FormatCall({Some(5)}, {Some(2)}, {Some(2024)})
  \/ DetectMonthCall(CallTokens)
  \/ EuropeanCall(CallTexts)
  \/ CheckDateCall(CallTexts)
  \/ check_date_heuristic
  \/ check_date_split
  \/ next_call

SpecCalls == Init /\ [][NextCalls]_vars

\* The call has ended, by a return or by an exception.
Ended == pc \in {"returned", "raised"}

TypeOK ==
  /\ pc \in {"idle", "except", "after_heuristic", "returned", "raised"}
  /\ runs \in 0..1
  /\ Len(log) <= MaxCalls

\* ------------------------------------------------------------ properties
\* The record of the call, once determine_day_and_year has run.
R == Val(result)

DetermineReturned == op = "determine_day_and_year" /\ pc = "returned"

ConvertedReturned == op = "get_converted_and_corrected_date" /\ pc = "returned"

FormatReturned == op = "format_date" /\ pc = "returned"

DateFieldsSet(r) ==
  ~IsNone(r.day) /\ ~IsNone(r.month) /\ ~IsNone(r.year) /\ ~IsNone(r.day_name)

DateFieldsEmpty(r) ==
  IsNone(r.day) /\ IsNone(r.month) /\ IsNone(r.year) /\ IsNone(r.day_name)

\* The error text of the clamping branch, naming both days.
ClampError(day, valid_last_day) ==
  Some(ErrorMsg("Invalid day ({day}). Replaced with last valid day {valid_last_day}.",
                <<day, valid_last_day>>))

\* C1: every call of an entry point ends by returning a value, never by an
\* exception that leaves the entry point.
C1_NeverRaises ==
  /\ pc # "raised"
  /\ IsNone(exc)
  /\ pc = "returned" => ~IsNone(ret)

\* C2: in check_date the heuristic pipeline does not run when parse_date gave
\* a date, and when parse_date gave none it runs exactly once and check_date
\* then returns a value.
C2_HeuristicOnceThenReturn ==
  /\ (op = "check_date" /\ ~IsNone(parsed)) => runs = 0
  /\ (op = "check_date" /\ IsNone(parsed) /\ pc \in {"after_heuristic", "returned", "raised"})
       => runs = 1
  /\ (op = "check_date" /\ IsNone(parsed) /\ Ended)
       => pc = "returned" /\ ~IsNone(ret)

\* C3: a record returned with is_valid = true has day, month, year and
\* day_name set and day <= valid_last_day.
C3_ValidHasDate ==
  (DetermineReturned /\ R.is_valid)
    => /\ DateFieldsSet(R)
       /\ ~IsNone(R.valid_last_day)
       /\ Val(R.day) <= Val(R.valid_last_day)

\* The record r clamps the day of the resolved fields f to last, the length
\* of month f.month in the promoted year.
ClampedRecord(r, f, year, last) ==
  /\ r.is_valid = FALSE
  /\ r.valid_last_day = Some(last)
  /\ r.day = Some(last)
  /\ r.month = Some(f.month)
  /\ r.year = Some(year)
  /\ r.day_name = Some(strftime_A(year, f.month, last))
  /\ r.error = ClampError(f.day, last)

DayOutOfRange(f) ==
  f.status = "ok" /\ f.day > monthrange_last(PromoteYear(f.year), f.month)

ClampedIfOutOfRange(r, f) ==
  DayOutOfRange(f)
    => ClampedRecord(r, f, PromoteYear(f.year),
                     monthrange_last(PromoteYear(f.year), f.month))

\* C4: when the resolved day exceeds the length of the resolved month, the
\* record has is_valid = false, day = valid_last_day, month and year set, the
\* day name of the clamped date, and the error naming both days.
C4_DayOutOfRangeClamped ==
  DetermineReturned => ClampedIfOutOfRange(R, ResolveFields(date_str))

SameValidDate(again, r) ==
  /\ again.is_valid
  /\ again.day = r.day
  /\ again.month = r.month
  /\ again.year = r.year

\* C5: formatting a valid record that carries a date and running
\* determine_day_and_year on the canonical string gives a valid record with
\* the same day, month and year.
C5_Idempotent ==
  (DetermineReturned /\ R.is_valid /\ DateFieldsSet(R))
    => SameValidDate(determine_day_and_year(format_date(R.day, R.month, R.year)), R)

\* The text is YYYY-MM-DD with MM in 01..12 and DD beyond the length of month
\* MM in year YYYY.
IsoDayOverflow(s) ==
  /\ Len(s) = 10
  /\ s[5] = "-" /\ s[8] = "-"
  /\ \A i \in {1, 2, 3, 4, 6, 7, 9, 10} : IsDigitChar(s[i])
  /\ StrToInt(SubSeq(s, 6, 7)) \in 1..12
  /\ StrToInt(SubSeq(s, 1, 4)) >= 100
  /\ StrToInt(SubSeq(s, 9, 10)) >
       monthrange_last(StrToInt(SubSeq(s, 1, 4)), StrToInt(SubSeq(s, 6, 7)))

IsoClamped(r, year, month, day) ==
  /\ r.month = Some(month)
  /\ r.year = Some(year)
  /\ r.day = Some(monthrange_last(year, month))
  /\ r.is_valid = FALSE
  /\ r.error = ClampError(day, monthrange_last(year, month))

\* C6: a YYYY-MM-DD text whose day exceeds the month's length gives month MM,
\* year YYYY, the day clamped to the month's last day, is_valid = false and
\* the error naming the substitution ("2024-02-30" gives 29 February 2024).
C6_IsoDateClamped ==
  (DetermineReturned /\ IsoDayOverflow(date_str))
    => IsoClamped(R, StrToInt(SubSeq(date_str, 1, 4)),
                  StrToInt(SubSeq(date_str, 6, 7)),
                  StrToInt(SubSeq(date_str, 9, 10)))

ShapeSuccess(r) == r.is_valid /\ IsNone(r.error) /\ DateFieldsSet(r)

ShapeRecoveredInvalid(r) ==
  /\ ~r.is_valid /\ ~IsNone(r.error) /\ DateFieldsSet(r)
  /\ ~IsNone(r.valid_last_day) /\ r.day = r.valid_last_day

ShapeRejected(r) == ~r.is_valid /\ ~IsNone(r.error) /\ DateFieldsEmpty(r)

\* C7: every returned record is a Success, a RecoveredInvalid or a Rejected
\* record (the three exclude one another).
C7_ThreeShapes ==
  DetermineReturned
    => ShapeSuccess(R) \/ ShapeRecoveredInvalid(R) \/ ShapeRejected(R)

\* C8: format_date gives DD-Month-YYYY for a month in 1..12 and the literal
\* 01-January-2000 for every month outside 1..12 and for None.
C8_FormatOrFallback ==
  FormatReturned =>
    LET day == fargs[1]
        month == fargs[2]
        year == fargs[3]
        inrange == ~IsNone(month) /\ Val(month) >= 1 /\ Val(month) <= 12
    IN  /\ (inrange /\ ~IsNone(day) /\ Val(day) >= 0 /\ ~IsNone(year) /\ Val(year) >= 0)
          => ret = Some(Format02d(Val(day)) \o <<"-">> \o MonthNames[Val(month)]
                        \o <<"-">> \o NatToStr(Val(year)))
        /\ ~inrange => ret = Some(FallbackDate)

\* The pair the claim gives for the record r.
ClaimedPair(r, value) ==
  /\ r.is_valid
       => /\ value[1] = format_date(r.day, r.month, r.year)
          /\ value[2] = format_date(r.day, r.month, r.year)
  /\ ~r.is_valid
       => /\ value[1] = InvalidOpen \o r.input_date \o <<")">>
          /\ value[2] = format_date(r.valid_last_day, r.month, r.year)

\* C9: get_converted_and_corrected_date returns (f, f), f the formatted record,
\* when the record determine_day_and_year gives for the text is valid, and
\* otherwise ("Invalid (" + input_date + ")", format_date(valid_last_day,
\* month, year)).
C9_ConvertedAndCorrected ==
  ConvertedReturned =>
    /\ result = Some(determine_day_and_year(date_str))
    /\ Len(Val(ret)) = 2
    /\ ClaimedPair(R, Val(ret))

\* C9 witness: a call returned for a record that is not valid and was clamped.
C9_Witness ==
  /\ ConvertedReturned
  /\ ~R.is_valid
  /\ ~IsNone(R.day)
  /\ Val(ret)[2] # FallbackDate

\* The text is DD-Month-YYYY: a two-digit day, an English month name and a
\* year, and the month of that year has that day.
WellFormedDate(s) ==
  \E m \in 1..12 :
    LET name == MonthNames[m]
        n == Len(name)
    IN  /\ Len(s) >= n + 5
        /\ IsDigitChar(s[1]) /\ IsDigitChar(s[2])
        /\ s[3] = "-"
        /\ HasAt(s, name, 4)
        /\ s[4 + n] = "-"
        /\ isdigit(SubSeq(s, 5 + n, Len(s)))
        /\ LET day == StrToInt(SubSeq(s, 1, 2))
               year == StrToInt(SubSeq(s, 5 + n, Len(s)))
           IN  year >= 1 /\ day >= 1 /\ day <= monthrange_last(year, m)

\* C10: the corrected component always is a well-formed DD-Month-YYYY date,
\* it is 01-January-2000 when the record has no date fields, and the converted
\* component starts with "Invalid (" exactly when the record is not valid.
C10_CorrectedWellFormed ==
  ConvertedReturned =>
    LET converted == Val(ret)[1]
        corrected == Val(ret)[2]
    IN  /\ WellFormedDate(corrected)
        /\ DateFieldsEmpty(R) => corrected = FallbackDate
        /\ HasAt(converted, InvalidOpen, 1) <=> ~R.is_valid

\* C10 witness: a call returned for a text that was rejected, with the
\* literal as the corrected date and the marker on the converted one.
C10_Witness ==
  /\ ConvertedReturned
  /\ ShapeRejected(R)
  /\ Val(ret)[2] = FallbackDate
  /\ HasAt(Val(ret)[1], InvalidOpen, 1)

\* C11: no call writes to a persisted store: converted_date.json is, after
\* every call, exactly as it was before the first one (empty).
C11_SideEffectFree == file = <<>>

LeapYearReturned == op = "check_leap_year" /\ pc = "returned"

\* C12: check_leap_year(y) is true exactly when y is a multiple of 4 and not
\* of 100, or a multiple of 400; false for 1900 and 2100, true for 2000 and
\* 2024.
C12_LeapYearRule ==
  LeapYearReturned =>
    /\ Val(ret) = ((fargs[1] % 4 = 0 /\ fargs[1] % 100 # 0) \/ fargs[1] % 400 = 0)
    /\ fargs[1] \in {1900, 2100} => Val(ret) = FALSE
    /\ fargs[1] \in {2000, 2024} => Val(ret) = TRUE

\* C12 witness: the call returned true for a century that is a multiple of 400.
C12_Witness == LeapYearReturned /\ fargs[1] = 2000 /\ Val(ret) = TRUE

\* The year after two-digit promotion, as the documentation states it.
PromotedYear(y) == IF y < 100 THEN 2000 + y ELSE y

\* The Gregorian leap-year rule.
GregorianLeap(y) == (y % 4 = 0 /\ y % 100 # 0) \/ y % 400 = 0

\* The Gregorian length of a month.
GregorianLength(year, month) ==
  IF month \in {4, 6, 9, 11} THEN 30
  ELSE IF month = 2 THEN (IF GregorianLeap(year) THEN 29 ELSE 28)
  ELSE 31

LastDayOfResolved(r, f) ==
  /\ f.status = "ok"
  /\ r.valid_last_day = Some(GregorianLength(PromotedYear(f.year), f.month))
  /\ r.leap_year = Some(GregorianLeap(PromotedYear(f.year)))
  /\ DateFieldsSet(r)
       => r.month = Some(f.month) /\ r.year = Some(PromotedYear(f.year))

\* C13: a returned record with valid_last_day set has it equal to the
\* Gregorian length of the resolved month in the resolved, promoted year, and
\* leap_year equal to the leap-year rule on that year.
C13_ValidLastDay ==
  (DetermineReturned /\ ~IsNone(R.valid_last_day))
    => LastDayOfResolved(R, ResolveFields(date_str))

\* C13 witness: a record for a February of a leap year, 29 days long.
C13_Witness ==
  /\ DetermineReturned
  /\ R.valid_last_day = Some(29)
  /\ R.leap_year = Some(TRUE)
  /\ R.month = Some(2)

YearOfResolved(r, f) ==
  /\ (f.status = "ok" /\ ~IsNone(r.year))
       => r.year = Some(IF f.year < 100 THEN 2000 + f.year ELSE f.year)
  /\ (f.status = "ok" /\ ~IsNone(r.leap_year))
       => r.leap_year = Some(GregorianLeap(IF f.year < 100 THEN 2000 + f.year
                                           ELSE f.year))

\* C14: the value assigned to year is replaced by 2000 + value when below 100
\* and kept otherwise, so no returned record has a year in 0..99; the year
\* token "29" of "29 March 15" becomes 2029.
C14_YearPromoted ==
  DetermineReturned =>
    /\ ~IsNone(R.year) => Val(R.year) \notin 0..99
    /\ YearOfResolved(R, ResolveFields(date_str))
    /\ date_str = <<"2","9"," ","M","a","r","c","h"," ","1","5">>
         => R.year = Some(2029)

\* C14 witness: the year token "29" was promoted to 2029.
C14_Witness ==
  /\ DetermineReturned
  /\ date_str = <<"2","9"," ","M","a","r","c","h"," ","1","5">>
  /\ R.year = Some(2029)
  /\ R.day = Some(15)

\* The weekday of a proleptic Gregorian date by the month-offset method
\* (0 = Sunday).
WeekdayOffsets == <<0, 3, 2, 5, 0, 3, 5, 1, 4, 6, 2, 4>>

WeekdayNumber(year, month, day) ==
  LET y == IF month < 3 THEN year - 1 ELSE year
  IN  (y + (y \div 4) - (y \div 100) + (y \div 400) + WeekdayOffsets[month] + day) % 7

WeekdayName(year, month, day) ==
  <<"Sunday", "Monday", "Tuesday", "Wednesday", "Thursday", "Friday",
    "Saturday">>[WeekdayNumber(year, month, day) + 1]

\* C15: a record's day_name, when set, is the weekday name of the record's
\* own year, month and day (the clamped day when the day was clamped);
\* "15 March 2023" matches March exactly, is valid and is a Wednesday.
C15_DayName ==
  DetermineReturned =>
    /\ ~IsNone(R.day_name)
         => /\ DateFieldsSet(R)
            /\ R.day_name = Some(WeekdayName(Val(R.year), Val(R.month), Val(R.day)))
    /\ date_str = <<"1","5"," ","M","a","r","c","h"," ","2","0","2","3">>
         => /\ correct_month_name(<<"M","a","r","c","h">>) = Some(MonthNames[3])
            /\ R.is_valid
            /\ R.month = Some(3)
            /\ R.day_name = Some("Wednesday")

\* C15 witness: a record whose day was clamped to the end of February carries
\* a day name.
C15_Witness ==
  /\ DetermineReturned
  /\ ~R.is_valid
  /\ R.month = Some(2)
  /\ R.day = R.valid_last_day
  /\ ~IsNone(R.day_name)

Novembr == <<"N","o","v","e","m","b","r">>

Text31Novembr2023 ==
  <<"3","1","-","N","o","v","e","m","b","r","-","2","0","2","3">>

\* C16: "31-Novembr-2023": the token Novembr is no month name, its similarity
\* to November is at least 0.7 and it is corrected to November; the record
\* has month 11, year 2023, the day 31 clamped to 30 and is_valid = false.
C16_NovembrClamped ==
  (DetermineReturned /\ date_str = Text31Novembr2023)
    => /\ Novembr \notin all_months
       /\ 2 * MatchingChars(MonthNames[11], Novembr, 1, 8, 1, 7) * 10 >= 7 * (8 + 7)
       /\ correct_month_name(Novembr) = Some(MonthNames[11])
       /\ R.month = Some(11)
       /\ R.year = Some(2023)
       /\ R.day = Some(30)
       /\ R.valid_last_day = Some(30)
       /\ R.is_valid = FALSE
       /\ R.error = ClampError(31, 30)

\* C16 witness: the call on "31-Novembr-2023" returned a record for November.
C16_Witness ==
  /\ DetermineReturned
  /\ date_str = Text31Novembr2023
  /\ R.month = Some(11)
  /\ R.day = Some(30)

\* C17: every record determine_day_and_year returns with is_valid = false has
\* error set, whichever entry point ran it.
C17_InvalidHasError ==
  (~IsNone(result) /\ ~R.is_valid) => ~IsNone(R.error)

\* C17 witness: a record that is not valid, carries the clamped date and the
\* error naming the day 32 that was replaced.
C17_Witness ==
  /\ DetermineReturned
  /\ ~R.is_valid
  /\ DateFieldsSet(R)
  /\ R.error = ClampError(32, 31)

\* The tokens determine_day_and_year splits the text into.
PartsOf(date_str0) == split(Normalised(date_str0))

\* Token i is all digits with a value in 1..12.
NumericMonthAt(parts, i) == isdigit(parts[i]) /\ StrToInt(parts[i]) \in 1..12

\* Every numeric month token the month loop came to (found is what the loop
\* ended with) was taken as the month, with its value.
NumericMonthsTaken(parts, found) ==
  \A i \in 1..Len(parts) :
    (NumericMonthAt(parts, i) /\ (found[2] = -1 \/ found[2] >= i))
      => found = <<Some(StrToInt(parts[i])), i>>

\* C19: an all-digit token whose value lies in 1..12, zero-padded or not, is
\* taken by the month loop as that month number when the loop comes to it.
C19_NumericMonthAccepted ==
  DetermineReturned
    => NumericMonthsTaken(PartsOf(date_str), FindMonth(PartsOf(date_str), 1))

\* The record r shows the year and day the claim assigns to the remaining
\* integers a, b: the year (promoted) and the day (clamped to valid_last_day)
\* where the record carries a date, and in every case leap_year, is_valid and
\* the clamping error, which depend on which value was made the day.
Disambiguated(r, a, b) ==
  LET year == IF a > 31 THEN a ELSE IF b > 31 THEN b ELSE a
      day == IF a > 31 THEN b ELSE IF b > 31 THEN a ELSE b
  IN  /\ ~IsNone(r.valid_last_day)
      /\ r.leap_year = Some(GregorianLeap(PromotedYear(year)))
      /\ r.is_valid = (day <= Val(r.valid_last_day))
      /\ DateFieldsSet(r)
           => /\ r.year = Some(PromotedYear(year))
              /\ r.day = Some(IF day > Val(r.valid_last_day)
                              THEN Val(r.valid_last_day) ELSE day)
              /\ ~r.is_valid => r.error = ClampError(day, Val(r.valid_last_day))
      /\ (a > 31 /\ b > 31)
           => /\ ~r.is_valid
              /\ DateFieldsSet(r)
                   => r.day = r.valid_last_day /\ r.year = Some(PromotedYear(a))

DisambiguatedParts(r, others) ==
  Disambiguated(r, StrToInt(others[1]), StrToInt(others[2]))

\* C20: of the two remaining integers a, b in their order, a is the year and
\* b the day when a > 31; else b is the year and a the day when b > 31; else a
\* is the year and b the day. When both exceed 31, a is the year and b, the
\* day, is clamped.
C20_FieldDisambiguation ==
  (DetermineReturned /\ ResolveFields(date_str).status = "ok")
    => DisambiguatedParts(R, OtherParts(PartsOf(date_str),
                                        FindMonth(PartsOf(date_str), 1)[2]))

\* C20 witness: the integers 2024 and 32 both exceed 31; 2024 is the year and
\* the day 32 was clamped to the end of February.
C20_Witness ==
  /\ DetermineReturned
  /\ ResolveFields(date_str).status = "ok"
  /\ R.year = Some(2024)
  /\ R.day = Some(29)
  /\ R.error = ClampError(32, 29)

\* Two entries of the log are the same call: same operation, same argument.
SameCall(a, b) == a.op = b.op /\ a.arg = b.arg

NoiseChars == {"-", "/", ",", ":", ";", "|", "'", "."}

NoNoiseIn(tokens) ==
  \A i \in 1..Len(tokens) : \A k \in 1..Len(tokens[i]) : tokens[i][k] \notin NoiseChars

\* C21: whichever entry point supplied the text, no token of the text the
\* heuristic pipeline tokenised (the record's input_date) contains a hyphen,
\* slash, comma, colon, semicolon, pipe, apostrophe or period.
C21_SeparatorsNormalised ==
  ~IsNone(result) => NoNoiseIn(split(R.input_date))

\* A token that satisfies a rule of the Month Resolver as documented: an
\* all-digit token with a value in 1..12, or a month name or abbreviation,
\* exact or fuzzy-matched.
QualifiesAsMonth(tok) ==
  (isdigit(tok) /\ StrToInt(tok) \in 1..12) \/ ~IsNone(correct_month_name(tok))

\* Token i is the first of parts that qualifies.
FirstQualifying(parts, i) ==
  QualifiesAsMonth(parts[i]) /\ \A j \in 1..(i - 1) : ~QualifiesAsMonth(parts[j])

\* The month loop ended at the first qualifying token, and the record r is the
\* one the other tokens, in their order, give with that month.
FirstTokenWins(r, parts, found) ==
  \A i \in 1..Len(parts) :
    FirstQualifying(parts, i)
      => /\ found[2] = i
         /\ r = DetermineFrom(NewResult(r.input_date),
                  ResolveNumbers(Val(found[1]),
                    SubSeq(parts, 1, i - 1) \o SubSeq(parts, i + 1, Len(parts))))

\* C22: the first token, left to right, that satisfies any rule (numeric
\* 1..12, exact name or abbreviation, fuzzy match) is the month; no later
\* qualifying token is chosen, and the other tokens go on in their order.
C22_FirstTokenWins ==
  DetermineReturned
    => FirstTokenWins(R, PartsOf(date_str), FindMonth(PartsOf(date_str), 1))

\* The tokens left when token k is removed.
Without(parts, k) == SubSeq(parts, 1, k - 1) \o SubSeq(parts, k + 1, Len(parts))

\* Exactly two tokens, both of which int() accepts.
TwoIntegers(tokens) ==
  Len(tokens) = 2 /\ isdigit(tokens[1]) /\ isdigit(tokens[2])

\* The record r is rejected with the given error text and carries none of
\* day, month, year, day_name, leap_year, valid_last_day.
RejectedWith(r, text) ==
  /\ r.error = Some(ErrorMsg(text, <<>>))
  /\ ~r.is_valid
  /\ DateFieldsEmpty(r)
  /\ IsNone(r.leap_year)
  /\ IsNone(r.valid_last_day)

\* found is a month at some token and the other tokens are not two integers.
BadRemainder(parts, found) ==
  ~IsNone(found[1]) /\ ~TwoIntegers(Without(parts, found[2]))

\* The month loop finds a month in parts and leaves a bad remainder.
BadRemainderIn(parts) == BadRemainder(parts, FindMonth(parts, 1))

\* parts are a month token and one integer.
MonthAndOneInteger(parts) ==
  /\ Len(parts) = 2
  /\ BadRemainderIn(parts)
  /\ isdigit(Without(parts, FindMonth(parts, 1)[2])[1])

\* C23: when the tokens left after removing the month token are not exactly
\* two integers, determine_day_and_year ends with 'Invalid numeric values in
\* date.', is_valid false, and day, month, year, day_name, leap_year and
\* valid_last_day all None.
C23_InvalidNumericValues ==
  DetermineReturned
    => (BadRemainderIn(split(R.input_date))
          => RejectedWith(R, "Invalid numeric values in date."))

\* A month and a single integer: one token too few.
C23_Witness ==
  /\ DetermineReturned
  /\ MonthAndOneInteger(split(R.input_date))
  /\ RejectedWith(R, "Invalid numeric values in date.")

\* No token of parts is a month for the month loop: none is matched to a month
\* name or abbreviation and none is a key of the numeric table.
NoMonthToken(parts) ==
  \A i \in 1..Len(parts) :
    IsNone(correct_month_name(parts[i])) /\ ~months_num_has(parts[i])

\* Three tokens, none a month, one of them not a number.
NoMonthButWord(parts) ==
  /\ Len(parts) = 3
  /\ NoMonthToken(parts)
  /\ \E i \in 1..3 : ~isdigit(parts[i])

\* C24: when no token resolves to a month, determine_day_and_year ends with
\* 'Invalid month found. Could not correct.', is_valid false, and day, month,
\* year, day_name, leap_year and valid_last_day all None, whatever the other
\* tokens are.
C24_MonthNotFound ==
  DetermineReturned
    => (NoMonthToken(split(R.input_date))
          => RejectedWith(R, "Invalid month found. Could not correct."))

\* No month among the tokens, one of which is not a number: the numeric
\* fields would be in error too, and are not reported.
C24_Witness ==
  /\ DetermineReturned
  /\ NoMonthButWord(split(R.input_date))
  /\ RejectedWith(R, "Invalid month found. Could not correct.")

ParseDateReturned == op = "parse_date" /\ pc = "returned"

\* The templates in the order the documentation gives them.
TemplateOrder ==
  << <<"m","/","d","/","Y">>, <<"d","/","m","/","Y">>,
     <<"m","-","d","-","Y">>, <<"d","-","m","-","Y">>,
     <<"d"," ","m"," ","Y">>, <<"m"," ","d"," ","Y">>,
     <<"Y","-","m","-","d">>, <<"Y","-","d","-","m">>,
     <<"Y"," ","m"," ","d">>, <<"Y"," ","d"," ","m">> >>

\* Template k of the documented order parses the whole of s and none before
\* it does.
FirstParsing(s, k) ==
  /\ ~IsNone(strptime(s, TemplateOrder[k]))
  /\ \A j \in 1..(k - 1) : IsNone(strptime(s, TemplateOrder[j]))

NoTemplateParses(s) ==
  \A k \in 1..Len(TemplateOrder) : IsNone(strptime(s, TemplateOrder[k]))

\* C25: parse_date returns the date of the first template, in the documented
\* order, that parses the whole text, whatever a later template or the
\* fallback would give; when no template parses it returns what the fallback
\* gives, None when the fallback fails.
C25_FirstTemplateWins ==
  ParseDateReturned
    => /\ \A k \in 1..Len(TemplateOrder) :
            FirstParsing(date_str, k) => ret = Some(strptime(date_str, TemplateOrder[k]))
       /\ NoTemplateParses(date_str)
            => (ret = Some(None) \/ \E d \in DateutilDates : ret = Some(Some(d)))

\* '02/12/2024' parses under %m/%d/%Y and under %d/%m/%Y: the first gives
\* 12 February.
C25_Witness ==
  /\ ParseDateReturned
  /\ FirstParsing(date_str, 1)
  /\ ~IsNone(strptime(date_str, TemplateOrder[2]))
  /\ strptime(date_str, TemplateOrder[2]) # strptime(date_str, TemplateOrder[1])
  /\ ret = Some(Some([year |-> 2024, month |-> 2, day |-> 12]))

FourZeros == <<"0","0","0","0">>

Text15March0000 == <<"1","5"," ","M","a","r","c","h"," ","0","0","0","0">>

Text15March2000 == <<"1","5"," ","M","a","r","c","h"," ","2","0","0","0">>

\* The text as tokenised when the "0000" rule leaves it alone: stripped,
\* title-cased, hyphen, slash and comma replaced by blanks.
TidiedOnly(text) == ReSubSpace(HeuristicSeparators, title(strip(text)))

\* C26: a text containing "0000" is tokenised with "2000" in its place, so
\* '15 March 0000' resolves to the year 2000; a text without "0000" is
\* tokenised as it is.
C26_ZerosBecome2000 ==
  DetermineReturned
    => /\ ~Contains(date_str, FourZeros) => R.input_date = TidiedOnly(date_str)
       /\ Contains(date_str, FourZeros)
            => R.input_date = TidiedOnly(replace(date_str, FourZeros, <<"2","0","0","0">>))
       /\ date_str = Text15March0000
            => (R.input_date = Text15March2000 /\ R.year = Some(2000))

C26_Witness ==
  /\ DetermineReturned
  /\ date_str = Text15March0000
  /\ R.input_date = Text15March2000
  /\ R.year = Some(2000)
  /\ R.is_valid

EuropeanReturned == op = "check_european_format" /\ pc = "returned"

\* Three tokens: an integer day of at least 1, a month token that resolves,
\* an integer year that datetime takes.
DayMonthYear(parts) ==
  /\ Len(parts) = 3
  /\ isdigit(parts[1]) /\ StrToInt(parts[1]) >= 1
  /\ ~IsNone(correct_month_name(parts[2]))
  /\ isdigit(parts[3]) /\ StrToInt(parts[3]) \in 1..MAXYEAR

\* The record r is the documented outcome for the day, month index and year.
EuropeanOutcome(r, day, month, year) ==
  /\ r.month = Some(month)
  /\ r.year = Some(year)
  /\ ~IsNone(r.day_name)
  /\ IF day <= GregorianLength(year, month)
     THEN r.is_valid /\ r.day = Some(day)
     ELSE ~r.is_valid /\ r.day = Some(GregorianLength(year, month))

\* C27: check_european_format on three tokens, day and year integers and a
\* month token that resolves, returns day, month index, year and day_name,
\* is_valid true for a day the month has, and for a day beyond the month's
\* length the clamped day with is_valid false.
C27_EuropeanFormat ==
  (EuropeanReturned /\ DayMonthYear(PartsOf(date_str)))
    => EuropeanOutcome(Val(ret), StrToInt(PartsOf(date_str)[1]),
                       Val(MonthNumber(Val(correct_month_name(PartsOf(date_str)[2])))),
                       StrToInt(PartsOf(date_str)[3]))

\* 'D MonthName YYYY': D a number in 1..12 written without a leading zero,
\* then a word that resolves to a month, then four digits.
DayNameYear(parts) ==
  /\ Len(parts) = 3
  /\ isdigit(parts[1]) /\ parts[1][1] # "0" /\ StrToInt(parts[1]) \in 1..12
  /\ ~isdigit(parts[2]) /\ ~IsNone(correct_month_name(parts[2]))
  /\ isdigit(parts[3]) /\ Len(parts[3]) = 4

\* The month loop ends at the first token, taken as a month number.
FirstTokenIsMonth(parts) == FindMonth(parts, 1) = <<Some(StrToInt(parts[1])), 1>>

\* '12 Feb 2024' as tokenised.
Is12Feb(parts) == parts[1] = <<"1","2">> /\ parts[2] = <<"F","e","b">>

\* C28: for 'D MonthName YYYY' with D unpadded and in 1..12, the month loop
\* takes D as the month at the first token and determine_day_and_year is
\* rejected with 'Invalid numeric values in date.', no date field set.
C28_DayTakenAsMonth ==
  DetermineReturned
    => (DayNameYear(split(R.input_date))
          => /\ FirstTokenIsMonth(split(R.input_date))
             /\ RejectedWith(R, "Invalid numeric values in date."))

\* '12 feb 2024': 12 is taken as the month, 'Feb' is not a number.
C28_Witness ==
  /\ DetermineReturned
  /\ DayNameYear(split(R.input_date))
  /\ Is12Feb(split(R.input_date))
  /\ RejectedWith(R, "Invalid numeric values in date.")

\* One or two digits with a value in 1..12.
OneToTwelve(tok) == isdigit(tok) /\ Len(tok) <= 2 /\ StrToInt(tok) \in 1..12

\* text is a sep b sep YYYY, a and b in 1..12 and YYYY the four digits of a
\* year from 1 to 9999; parts are its three fields.
RawNumericDate(text, parts, sep) ==
  /\ Len(parts) = 3
  /\ text = Join(parts, sep)
  /\ OneToTwelve(parts[1])
  /\ OneToTwelve(parts[2])
  /\ isdigit(parts[3]) /\ Len(parts[3]) = 4 /\ StrToInt(parts[3]) \in 1..MAXYEAR

\* check_date reads a as the day and b as the month; parse_date reads a as
\* the month and b as the day.
DayFirstThroughCheckDate(a, b, year) ==
  /\ op = "check_date"
       => /\ pc = "returned"
          /\ parsed = Some([year |-> year, month |-> b, day |-> a])
          /\ ret = Some(Format02d(a) \o <<"-">> \o MonthNames[b] \o <<"-">> \o IntToStr(year))
  /\ ParseDateReturned
       => ret = Some(Some([year |-> year, month |-> a, day |-> b]))

FieldsOf(text, sep) == split(ReSubSpace({sep}, text))

DayFirstIn(text, parts, sep) ==
  RawNumericDate(text, parts, sep)
    => DayFirstThroughCheckDate(StrToInt(parts[1]), StrToInt(parts[2]),
                                StrToInt(parts[3]))

\* C29: for a raw text 'a/b/YYYY' or 'a-b-YYYY' with a and b in 1..12,
\* check_date resolves a as the day and b as the month, and parse_date on the
\* same text resolves a as the month and b as the day.
C29_CheckDateDayFirst ==
  (op = "check_date" \/ ParseDateReturned)
    => \A sep \in {"/", "-"} :
         DayFirstIn(date_str, FieldsOf(date_str, sep), sep)

\* check_date('5/3/2023') returns 05-March-2023.
C29_Witness ==
  /\ op = "check_date"
  /\ pc = "returned"
  /\ date_str = <<"5","/","3","/","2","0","2","3">>
  /\ ret = Some(<<"0","5","-","M","a","r","c","h","-","2","0","2","3">>)

\* Digits and blanks only, with at least one token.
SpacedNumbers(text) ==
  /\ \A i \in 1..Len(text) : IsDigitChar(text[i]) \/ text[i] = " "
  /\ split(text) # <<>>

\* The record r carries the date d.
SameDate(r, d) ==
  r.day = Some(d.day) /\ r.month = Some(d.month) /\ r.year = Some(d.year)

\* C30: a space-separated all-numeric text that a strict template parses and
\* that determine_day_and_year accepts as valid resolves to the same day,
\* month and year on both paths.
C30_PathsAgree ==
  (DetermineReturned /\ SpacedNumbers(date_str) /\ R.is_valid
     /\ ~IsNone(StrictParse(date_str, 1)))
    => SameDate(R, Val(StrictParse(date_str, 1)))

====
